---- MODULE Spec2Model ----
(***************************************************************************)
(* The message wall of src/app.py: the messages and reports tables, the    *)
(* request handlers that write and read them, and the abuse filter.        *)
(*                                                                         *)
(* A text is a sequence of characters, each a one-character string.  Time  *)
(* is counted in ticks, TicksPerSecond of them to the second, measured     *)
(* from an instant whose value in seconds is an even multiple of           *)
(* Float4Step.  The flask_limiter decorators, the session layer and the    *)
(* failure of the database connection itself are not modelled.             *)
(*                                                                         *)
(* Spec serves the requests one at a time.  SpecNews lets the threads of   *)
(* the server run post_news_to_wall side by side, one SQL statement at a   *)
(* step.                                                                   *)
(***************************************************************************)
EXTENDS Integers, Sequences, FiniteSets, TLC

VARIABLES
    backend,        \* "postgres" when DATABASE_URL is set, else "sqlite"
    openai_client,  \* TRUE when openai.OpenAI() was constructed, FALSE when None
    messages,       \* the rows of table messages
    reports,        \* the rows of table reports
    now,            \* time.time(), in ticks
    uuids,          \* how many uuid4() values have been drawn
    last,           \* the last request served and its response
    news_runs       \* where each server thread stands in post_news_to_wall

vars ==
    <<backend, openai_client, messages, reports, now, uuids, last, news_runs>>

----------------------------------------------------------------------------
(* Bounds of the model *)

MaxIds == 2
TicksPerSecond == 2
MaxProbeLen == 6
MaxWords == 7
MaxThreads == 2

----------------------------------------------------------------------------
(* Program constants *)

MESSAGE_TTL == 7 * 24 * 60 * 60
MAX_LENGTH == 280
TITLE_LIMIT == 300
RUN_WINDOW == 5
MIN_WORDS == 5
MIN_LETTERS == 5

\* Column "timestamp REAL": 8-byte IEEE double in SQLite, 4-byte IEEE single
\* in PostgreSQL.  A single has a 24-bit significand, so between 2^30 and
\* 2^31 seconds (2004 to 2038) neighbouring values are 2^7 seconds apart.
Float4Step == 128

TTLTicks == MESSAGE_TTL * TicksPerSecond
Float4Ticks == Float4Step * TicksPerSecond

----------------------------------------------------------------------------
(* Characters and strings *)

LowerSeq == <<
    "a","b","c","d","e","f","g","h","i","j","k","l","m","n","o","p","q","r",
    "s","t","u","v","w","x","y","z" >>
UpperSeq == <<
    "A","B","C","D","E","F","G","H","I","J","K","L","M","N","O","P","Q","R",
    "S","T","U","V","W","X","Y","Z" >>

Range(s) == {s[i] : i \in 1..Len(s)}
Uppers == Range(UpperSeq)
Letters == Range(LowerSeq) \cup Range(UpperSeq)

\* str.isupper / str.isalpha on one ASCII character
isupper(c) == c \in Uppers
isalpha(c) == c \in Letters

\* what str.strip() and str.split() treat as white space
isspace(c) == c \in {" ", "\n", "\t"}

\* str.lower on one character, and on a string
lower_char(c) ==
    IF isupper(c) THEN LowerSeq[CHOOSE i \in 1..Len(UpperSeq) : UpperSeq[i] = c]
    ELSE c
lower(s) == [i \in 1..Len(s) |-> lower_char(s[i])]

\* str.strip(): the string without its leading and trailing white space
strip(s) ==
    LET n == Len(s)
    IN  IF \A i \in 1..n : isspace(s[i]) THEN << >>
        ELSE LET lead  == CHOOSE k \in 0..n :
                              /\ \A j \in 1..k : isspace(s[j])
                              /\ ~isspace(s[k + 1])
                 trail == CHOOSE k \in 0..n :
                              /\ \A j \in 1..k : isspace(s[n + 1 - j])
                              /\ ~isspace(s[n - k])
             IN  SubSeq(s, lead + 1, n - trail)

\* s[:n]
prefix(s, n) == IF Len(s) <= n THEN s ELSE SubSeq(s, 1, n)

\* s repeated n times
RECURSIVE Rep(_, _)
Rep(s, n) == IF n = 0 THEN << >> ELSE s \o Rep(s, n - 1)

\* str.split(): the positions where a white-space separated word starts, and
\* the word that starts there
word_starts(s) ==
    {i \in 1..Len(s) : ~isspace(s[i]) /\ (i = 1 \/ isspace(s[i - 1]))}
word_at(s, i) ==
    SubSeq(s, i, CHOOSE j \in i..Len(s) :
                    /\ j = Len(s) \/ isspace(s[j + 1])
                    /\ \A k \in i..j : ~isspace(s[k]))

----------------------------------------------------------------------------
(* The abuse filter *)

\* better_profanity's word list is data of that library; one of its entries
\* stands for the list.  The match is by whole word, case-insensitively.
CENSOR_WORDS == { <<"d","a","m","n">> }

contains_profanity(text) ==
    LET low == lower(text)
    IN  \E i \in word_starts(low) : word_at(low, i) \in CENSOR_WORDS

\* caps_ratio > 0.8 and len(letters) > 5, the ratio compared exactly
excessive_caps(text) ==
    LET letters == {i \in 1..Len(text) : isalpha(text[i])}
        caps    == {i \in letters : isupper(text[i])}
    IN  /\ letters # {}
        /\ 10 * Cardinality(caps) > 8 * Cardinality(letters)
        /\ Cardinality(letters) > MIN_LETTERS

\* the scan stopping one window early
repeated_chars_short(text) ==
    \E i \in 1..(Len(text) - RUN_WINDOW) :
        \A k \in 1..(RUN_WINDOW - 1) : text[i + k] = text[i]

\* for i in range(len(text) - 4): len(set(text[i:i+5])) == 1
repeated_chars(text) ==
    \E i \in 1..(Len(text) - (RUN_WINDOW - 1)) :
        \A k \in 1..(RUN_WINDOW - 1) : text[i + k] = text[i]

\* the words compared as written, upper and lower case apart
repeated_words_cased(text) ==
    LET starts == word_starts(text)
        count(i) == Cardinality({j \in starts : word_at(text, j) = word_at(text, i)})
    IN  /\ Cardinality(starts) > MIN_WORDS
        /\ \E i \in starts : 2 * count(i) > Cardinality(starts)

\* len(words) > 5 and some count > len(words) * 0.5
repeated_words(text) ==
    LET low    == lower(text)
        starts == word_starts(low)
        count(i) == Cardinality({j \in starts : word_at(low, j) = word_at(low, i)})
    IN  /\ Cardinality(starts) > MIN_WORDS
        /\ \E i \in starts : 2 * count(i) > Cardinality(starts)

is_content_abusive(text) ==
    IF Len(text) < 1 THEN FALSE
    ELSE \/ contains_profanity(text)
         \/ excessive_caps(text)
         \/ repeated_chars(text)
         \/ repeated_words(text)

\* the return statement is_content_abusive(text) leaves by: the checks run in
\* the order of the code and the first that holds returns True
abusive_return(text) ==
    IF Len(text) < 1 THEN "empty"
    ELSE IF contains_profanity(text) THEN "profanity"
    ELSE IF excessive_caps(text) THEN "caps"
    ELSE IF repeated_chars(text) THEN "chars"
    ELSE IF repeated_words(text) THEN "words"
    ELSE "clean"

----------------------------------------------------------------------------
(* Time and the REAL columns *)

\* int(x) for x given in ticks: the whole seconds of x, truncated toward zero
int_seconds(x) ==
    IF x >= 0 THEN x \div TicksPerSecond ELSE -((-x) \div TicksPerSecond)

max(a, b) == IF a >= b THEN a ELSE b

\* a double rounded to the nearest single, ties to the even significand
round_float4(t) ==
    LET below == (t \div Float4Ticks) * Float4Ticks
        rest  == t - below
    IN  IF 2 * rest < Float4Ticks THEN below
        ELSE IF 2 * rest > Float4Ticks THEN below + Float4Ticks
        ELSE IF (below \div Float4Ticks) % 2 = 0 THEN below
        ELSE below + Float4Ticks

\* the value a REAL column holds after time.time() was inserted into it
stored_real(db, t) == IF db = "postgres" THEN round_float4(t) ELSE t

\* Python's None; every column that may hold it holds a non-empty string
\* otherwise ("x.strip() or None")
None == << >>

or_none(s) == IF Len(s) = 0 THEN None ELSE s

----------------------------------------------------------------------------
(* The tables *)

MessageRow(id, text, timestamp, image_url, is_ai) ==
    [id |-> id, text |-> text, timestamp |-> timestamp,
     image_url |-> image_url, is_ai |-> is_ai]

ReportRow(id, message_id, reason, timestamp) ==
    [id |-> id, message_id |-> message_id, reason |-> reason,
     timestamp |-> timestamp]

\* str(uuid.uuid4()): a value never drawn before
uuid4(n) == n + 1

\* INSERT INTO messages
insert_message(rows, row) == rows \cup {row}

\* the sweep with the comparison turned round
delete_expired_young(rows, cutoff) == {r \in rows : ~(r.timestamp > cutoff)}

\* DELETE FROM messages WHERE timestamp < cutoff
delete_expired(rows, cutoff) == {r \in rows : ~(r.timestamp < cutoff)}

\* the delete with the comparison negated
delete_by_id_others(rows, message_id) == {r \in rows : r.id = message_id}

\* DELETE FROM messages WHERE id = message_id
delete_by_id(rows, message_id) == {r \in rows : r.id # message_id}

\* ORDER BY timestamp ASC
ordered_asc(s) ==
    \A i \in 1..(Len(s) - 1) : s[i].timestamp <= s[i + 1].timestamp

\* ORDER BY timestamp DESC: is sequence s in that order
ordered_desc(s) ==
    \A i \in 1..(Len(s) - 1) : s[i].timestamp >= s[i + 1].timestamp

\* SELECT ... FROM messages ORDER BY timestamp DESC: every listing of the rows
\* in that order (rows of equal timestamp come in any order)
select_ordered(rows) ==
    LET n == Cardinality(rows)
    IN  {s \in [1..n -> rows] :
            /\ \A i, j \in 1..n : i # j => s[i] # s[j]
            /\ ordered_desc(s)}

\* expires_in with int() taken of the age alone
expires_in_whole_age(t, timestamp) ==
    max(0, MESSAGE_TTL - int_seconds(t - timestamp))

\* "expires_in": max(0, int(MESSAGE_TTL - (now - timestamp)))
expires_in(t, timestamp) == max(0, int_seconds(TTLTicks - (t - timestamp)))

\* one item of the JSON list GET /messages returns
message_item(r, t) ==
    [id |-> r.id, text |-> r.text, timestamp |-> r.timestamp,
     image_url |-> r.image_url, is_ai |-> r.is_ai,
     expires_in |-> expires_in(t, r.timestamp)]

\* text LIKE pattern.  "%" matches any run of characters and "_" any one
\* character; letters match case-insensitively in SQLite and exactly in
\* PostgreSQL.  like_ends(pat, p, txt, nocase) is the set of positions t such
\* that the first p characters of pat match the first t - 1 characters of txt.
like_char(c, d, nocase) ==
    \/ c = "_"
    \/ c = d
    \/ nocase /\ lower_char(c) = lower_char(d)

RECURSIVE like_ends(_, _, _, _)
like_ends(pat, p, txt, nocase) ==
    IF p = 0 THEN {1}
    ELSE LET before == like_ends(pat, p - 1, txt, nocase)
         IN  IF pat[p] = "%"
             THEN {t \in 1..(Len(txt) + 1) : \E u \in before : u <= t}
             ELSE {t + 1 : t \in {u \in before :
                        u <= Len(txt) /\ like_char(pat[p], txt[u], nocase)}}

like(txt, pat, db) ==
    (Len(txt) + 1) \in like_ends(pat, Len(pat), txt, db = "sqlite")

----------------------------------------------------------------------------
(* The requests the model sends *)

T_EMPTY  == << >>
T_BLANK  == <<" ", " ">>
T_HELLO  == <<"h","e","l","l","o"," ","t","h","e","r","e">>
T_RUN    == <<"A","A","A","A","A"," ","t","e","s","t">>
T_CURSE  == <<"D","a","m","n"," ","i","t">>
T_SHOUT  == <<"H","E","L","L","O"," ","Y","O","U">>
T_FULL   == Rep(<<"a","b">>, MAX_LENGTH \div 2)
T_OVER   == T_FULL \o <<"a">>
T_PADDED == <<" ">> \o T_FULL \o <<"\n">>
T_IMAGE  == <<" ","i",".","p","n","g"," ">>
T_SPAM   == <<" ","s","p","a","m"," ">>

\* request.json of POST /messages
SubmitRequests ==
    {[text |-> t, image_url |-> << >>] :
        t \in {T_EMPTY, T_BLANK, T_RUN, T_OVER, T_HELLO}}
    \cup {[text |-> T_PADDED, image_url |-> T_IMAGE]}

\* request.json.reason of POST /messages/<id>/report
ReportReasons == {T_SPAM}

\* the <message_id> of a URL: an identifier drawn or still to be drawn
MessageIds == 1..MaxIds

\* what the chat completion of POST /ai-post ends with: an exception, or a
\* message content
AI_RAISES == [raises |-> TRUE, content |-> << >>]
AiOutcomes ==
    {AI_RAISES}
    \cup {[raises |-> FALSE, content |-> c] :
            c \in {<<" ","A","I"," ">>, T_OVER}}

\* what fetch_top_news(2) returns: at most two articles, each with a title
\* and a url
ART_SHORT == [title |-> <<"a","b">>, url |-> <<"h",".","i","o","/","a">>]
ART_LONG  == [title |-> Rep(<<"n","e","w","s"," ">>, 61),
              url   |-> <<"h",".","i","o","/","b">>]
Articles == {ART_SHORT, ART_LONG}
NewsFeeds ==
    {<< >>, <<ART_SHORT>>, <<ART_SHORT, ART_SHORT>>, <<ART_LONG, ART_SHORT>>}

\* the instants at which requests arrive, in ticks: the start, a time-to-live
\* after it, and a hundred seconds and a tick after that
Instants == {0, TTLTicks, TTLTicks + 100 * TicksPerSecond + 1}

----------------------------------------------------------------------------
(* The handlers *)

Backends == {"sqlite", "postgres"}

\* a request and its response: the handler, its input, the HTTP status, the
\* message of the JSON object or the JSON list returned, and the identifiers
\* of the rows of messages the request deleted
Response(op, arg, status, reply, body, removed) ==
    [op |-> op, arg |-> arg, status |-> status, reply |-> reply, body |-> body,
     removed |-> removed]

ids_of(rows) == {r.id : r \in rows}

\* the threads of the server, and a thread that is not in post_news_to_wall
Threads == 1..MaxThreads
IDLE == [pc |-> "idle", op |-> "none", articles |-> << >>, k |-> 0]
NoRuns == [t \in Threads |-> IDLE]

Init ==
    /\ backend \in Backends
    /\ openai_client \in BOOLEAN
    /\ news_runs = NoRuns
    /\ messages = {}
    /\ reports = {}
    /\ now = 0
    /\ uuids = 0
    /\ last = Response("none", << >>, 0, "none", << >>, {})

\* time passes between requests
Tick ==
    /\ \E t \in Instants : t > now /\ now' = t
    /\ UNCHANGED <<news_runs, backend, openai_client, messages, reports, uuids,
                   last>>

\* rejection without the check of the length
rejection_no_length(text) ==
    IF Len(text) = 0 THEN "Message is empty"
    ELSE IF is_content_abusive(text) THEN "inappropriate content"
    ELSE ""

\* why POST /messages turns a text down, "" when it does not
rejection(text) ==
    IF Len(text) = 0 THEN "Message is empty"
    ELSE IF Len(text) > MAX_LENGTH THEN "Max characters"
    ELSE IF is_content_abusive(text) THEN "inappropriate content"
    ELSE ""

\* validate without the strip of the text
validate_unstripped(data) ==
    [text |-> data.text, error |-> rejection(data.text),
     image_url |-> or_none(strip(data.image_url))]

\* what POST /messages makes of request.json: the stripped text, the reason
\* to turn it down, and the image reference
validate(data) ==
    LET text == strip(data.text)
    IN  [text |-> text, error |-> rejection(text),
         image_url |-> or_none(strip(data.image_url))]

\* validate, worked out once for the requests the model sends
validated == [data \in SubmitRequests |-> validate(data)]

\* POST /messages
post_message(data) ==
    LET v   == IF data \in SubmitRequests THEN validated[data] ELSE validate(data)
        row == MessageRow(uuid4(uuids), v.text, stored_real(backend, now),
                          v.image_url, FALSE)
    IN  IF v.error # ""
        THEN /\ last' = Response("post_message", data, 400, v.error, << >>, {})
             /\ UNCHANGED <<messages, uuids>>
        ELSE /\ uuids < MaxIds
             /\ messages' = insert_message(messages, row)
             /\ uuids' = uuid4(uuids)
             /\ last' = Response("post_message", data, 200, "ok", << >>, {})

PostMessage ==
    /\ \E data \in SubmitRequests : post_message(data)
    /\ UNCHANGED <<news_runs, backend, openai_client, reports, now>>

\* GET /messages.  In the SQLite branch the rows are sqlite3.Row objects, which
\* have no method get: building the first item raises AttributeError inside
\* "with conn:", which rolls the DELETE back, and the request fails.
get_messages ==
    LET cutoff == now - TTLTicks
        kept   == delete_expired(messages, cutoff)
    IN  IF backend = "postgres"
        THEN /\ messages' = kept
             /\ \E rows \in select_ordered(kept) :
                    last' = Response("get_messages", [at |-> now], 200, "ok",
                                [i \in 1..Len(rows) |-> message_item(rows[i], now)],
                                ids_of(messages \ kept))
        ELSE IF kept = {}
        THEN /\ messages' = kept
             /\ last' = Response("get_messages", [at |-> now], 200, "ok", << >>,
                                 ids_of(messages))
        ELSE /\ messages' = messages
             /\ last' = Response("get_messages", [at |-> now], 500,
                                 "AttributeError", << >>, {})

GetMessages ==
    /\ get_messages
    /\ UNCHANGED <<news_runs, backend, openai_client, reports, now, uuids>>

\* DELETE /messages/<message_id>
delete_message(message_id) ==
    /\ messages' = delete_by_id(messages, message_id)
    /\ last' = Response("delete_message", [message_id |-> message_id], 200, "ok",
                         << >>, ids_of(messages) \cap {message_id})

DeleteMessage ==
    /\ \E message_id \in MessageIds : delete_message(message_id)
    /\ UNCHANGED <<news_runs, backend, openai_client, reports, now, uuids>>

\* a report handler that looks the post up first
report_message_checked(message_id, data) ==
    LET row == ReportRow(uuid4(uuids), message_id, or_none(strip(data)),
                         stored_real(backend, now))
        arg == [message_id |-> message_id, reason |-> data]
    IN  IF message_id \in ids_of(messages)
        THEN /\ uuids < MaxIds
             /\ reports' = reports \cup {row}
             /\ uuids' = uuid4(uuids)
             /\ last' = Response("report_message", arg, 200, "ok", << >>, {})
        ELSE /\ last' = Response("report_message", arg, 404, "not found", << >>, {})
             /\ UNCHANGED <<reports, uuids>>

\* POST /messages/<message_id>/report
report_message(message_id, data) ==
    LET reason == or_none(strip(data))
        row    == ReportRow(uuid4(uuids), message_id, reason,
                            stored_real(backend, now))
    IN  /\ uuids < MaxIds
        /\ reports' = reports \cup {row}
        /\ uuids' = uuid4(uuids)
        /\ last' = Response("report_message",
                            [message_id |-> message_id, reason |-> data],
                            200, "ok", << >>, {})

ReportMessage ==
    /\ \E message_id \in MessageIds, data \in ReportReasons :
            report_message(message_id, data)
    /\ UNCHANGED <<news_runs, backend, openai_client, messages, now>>

AI_FALLBACK == <<
    "D","i","d"," ","y","o","u"," ","k","n","o","w","?"," ","T","e","c","h",
    "n","o","l","o","g","y"," ","i","s"," ","e","v","o","l","v","i","n","g",
    " ","f","a","s","t","e","r"," ","t","h","a","n"," ","e","v","e","r",".",
    " ","W","h","a","t","'","s"," ","y","o","u","r"," ","t","a","k","e"," ",
    "o","n"," ","A","I","?" >>

\* the text POST /ai-post stores for a message content
ai_text(content) ==
    LET text == strip(content)
    IN  IF Len(text) = 0 \/ Len(text) > MAX_LENGTH THEN AI_FALLBACK ELSE text

\* ai_text, worked out once for the contents the model sends
ai_texts == [outcome \in AiOutcomes |-> ai_text(outcome.content)]

\* POST /ai-post
ai_post(outcome) ==
    LET row == MessageRow(uuid4(uuids), ai_texts[outcome],
                          stored_real(backend, now), None, TRUE)
    IN  IF ~openai_client
        THEN /\ last' = Response("ai_post", << >>, 503, "AI not configured", << >>, {})
             /\ UNCHANGED <<messages, uuids>>
        ELSE IF outcome.raises
        THEN /\ last' = Response("ai_post", << >>, 500, "error", << >>, {})
             /\ UNCHANGED <<messages, uuids>>
        ELSE /\ uuids < MaxIds
             /\ messages' = insert_message(messages, row)
             /\ uuids' = uuid4(uuids)
             /\ last' = Response("ai_post", << >>, 200, "ok", << >>, {})

AiPost ==
    /\ \E outcome \in AiOutcomes : ai_post(outcome)
    /\ UNCHANGED <<news_runs, backend, openai_client, reports, now>>

\* the newspaper emoji that opens a news post: one character
NEWS_MARK == "#"

\* f"{emoji} {title}\n{url}"
news_text(title, url) == <<NEWS_MARK, " ">> \o title \o <<"\n">> \o url

\* the texts the requests of the model can store, and the LIKE patterns
\* post_news_to_wall can ask for
StorableTexts ==
    {validated[data].text : data \in SubmitRequests}
    \cup {ai_texts[outcome] : outcome \in AiOutcomes}
    \cup {news_text(prefix(a.title, TITLE_LIMIT), a.url) : a \in Articles}
Urls == {a.url : a \in Articles}

\* the urls each storable text is LIKE, worked out once
liked ==
    [db \in Backends |-> [txt \in StorableTexts |->
        {url \in Urls : like(txt, <<"%">> \o url \o <<"%">>, db)}]]

\* SELECT id FROM messages WHERE text LIKE '%url%': is there such a row
url_posted(rows, url, db) ==
    \E r \in rows :
        IF r.text \in StorableTexts /\ url \in Urls /\ db \in Backends
        THEN url \in liked[db][r.text]
        ELSE like(r.text, <<"%">> \o url \o <<"%">>, db)

\* the loop of post_news_to_wall from article k on: the rows and the count of
\* identifiers drawn once it ends
RECURSIVE news_loop(_, _, _, _)
news_loop(articles, k, rows, n) ==
    IF k > Len(articles) THEN [rows |-> rows, uuids |-> n]
    ELSE LET title == prefix(articles[k].title, TITLE_LIMIT)
             url   == articles[k].url
             row   == MessageRow(uuid4(n), news_text(title, url),
                                 stored_real(backend, now), None, TRUE)
         IN  IF Len(title) = 0 \/ Len(url) = 0
                THEN news_loop(articles, k + 1, rows, n)
             ELSE IF url_posted(rows, url, backend)
                THEN news_loop(articles, k + 1, rows, n)
             ELSE news_loop(articles, k + 1, insert_message(rows, row), uuid4(n))

post_news_to_wall(articles) ==
    LET done == news_loop(articles, 1, messages, uuids)
    IN  /\ done.uuids <= MaxIds
        /\ messages' = done.rows
        /\ uuids' = done.uuids

\* GET /
index ==
    /\ \E articles \in NewsFeeds :
          /\ post_news_to_wall(articles)
          /\ last' = Response("index", << >>, 200, "index.html", << >>, {})
    /\ UNCHANGED <<news_runs, backend, openai_client, reports, now>>

\* POST /fetch-news
fetch_news_endpoint ==
    /\ \E articles \in NewsFeeds :
          /\ post_news_to_wall(articles)
          /\ last' = Response("fetch_news_endpoint", << >>, 200, "ok", << >>, {})
    /\ UNCHANGED <<news_runs, backend, openai_client, reports, now>>

Next ==
    \/ Tick
    \/ PostMessage
    \/ GetMessages
    \/ DeleteMessage
    \/ ReportMessage
    \/ AiPost
    \/ index
    \/ fetch_news_endpoint

Spec == Init /\ [][Next]_vars

----------------------------------------------------------------------------
(* post_news_to_wall statement by statement: the threads of the server run
   GET / and POST /fetch-news side by side, each on a connection of its own,
   and a step is one SQL statement with its commit *)

NewsRoutes == {"index", "fetch_news_endpoint"}

\* a request for route op reaches thread t; fetch_top_news(2) returns and the
\* connection is opened
begin_news(t, op) ==
    /\ news_runs[t].pc = "idle"
    /\ \E articles \in NewsFeeds :
          news_runs' = [news_runs EXCEPT ![t] =
              [pc |-> "check", op |-> op, articles |-> articles, k |-> 1]]
    /\ UNCHANGED <<backend, openai_client, messages, reports, now, uuids, last>>

\* the next article of the loop: it is skipped when its title or url is
\* empty or when the SELECT ... LIKE finds a row, else the thread goes on to
\* the INSERT
check_url(t) ==
    LET run   == news_runs[t]
        title == prefix(run.articles[run.k].title, TITLE_LIMIT)
        url   == run.articles[run.k].url
    IN  /\ run.pc = "check"
        /\ run.k <= Len(run.articles)
        /\ news_runs' = [news_runs EXCEPT ![t] =
              IF Len(title) = 0 \/ Len(url) = 0
                  \/ url_posted(messages, url, backend)
              THEN [run EXCEPT !.k = run.k + 1]
              ELSE [run EXCEPT !.pc = "insert"]]
        /\ UNCHANGED <<backend, openai_client, messages, reports, now, uuids,
                       last>>

\* INSERT INTO messages and commit, then on to the next article
insert_post(t) ==
    LET run   == news_runs[t]
        title == prefix(run.articles[run.k].title, TITLE_LIMIT)
        url   == run.articles[run.k].url
        row   == MessageRow(uuid4(uuids), news_text(title, url),
                            stored_real(backend, now), None, TRUE)
    IN  /\ run.pc = "insert"
        /\ uuids < MaxIds
        /\ messages' = insert_message(messages, row)
        /\ uuids' = uuid4(uuids)
        /\ news_runs' = [news_runs EXCEPT ![t] =
              [run EXCEPT !.pc = "check", !.k = run.k + 1]]
        /\ UNCHANGED <<backend, openai_client, reports, now, last>>

\* the loop is over: the connection is closed and the route answers
end_news(t) ==
    LET run == news_runs[t]
    IN  /\ run.pc = "check"
        /\ run.k > Len(run.articles)
        /\ news_runs' = [news_runs EXCEPT ![t] = IDLE]
        /\ last' = Response(run.op, << >>, 200,
                            IF run.op = "index" THEN "index.html" ELSE "ok",
                            << >>, {})
        /\ UNCHANGED <<backend, openai_client, messages, reports, now, uuids>>

BeginNews == \E t \in Threads : \E op \in NewsRoutes : begin_news(t, op)
CheckUrl == \E t \in Threads : check_url(t)
InsertPost == \E t \in Threads : insert_post(t)
EndNews == \E t \in Threads : end_news(t)

NextNews ==
    \/ BeginNews
    \/ CheckUrl
    \/ InsertPost
    \/ EndNews

SpecNews == Init /\ [][NextNews]_vars

----------------------------------------------------------------------------
(* The abuse filter on its own: a text is drawn, classified, and submitted *)

ProbeAlphabet == {"a", "A", " "}
ProbeTexts ==
    UNION {[1..n -> ProbeAlphabet] : n \in 0..MaxProbeLen}
    \cup {T_RUN, T_CURSE, T_SHOUT, T_HELLO}

InitAbuse ==
    /\ backend \in Backends
    /\ openai_client \in BOOLEAN
    /\ news_runs = NoRuns
    /\ messages = {}
    /\ reports = {}
    /\ now = 0
    /\ uuids = 0
    /\ \E text \in ProbeTexts :
          last = Response("probe", [text |-> text, image_url |-> << >>], 0,
                          "none", << >>, {})

\* is_content_abusive(text) is called and its answer kept
Classify ==
    /\ last.op = "probe"
    /\ last' = Response("is_content_abusive", last.arg, 0,
                        IF is_content_abusive(last.arg.text) THEN "abusive"
                        ELSE "clean",
                        << >>, {})
    /\ UNCHANGED <<news_runs, backend, openai_client, messages, reports, now,
                   uuids>>

\* the text is sent to POST /messages
SubmitProbe ==
    /\ last.op \in {"probe", "is_content_abusive"}
    /\ post_message(last.arg)
    /\ UNCHANGED <<news_runs, backend, openai_client, reports, now>>

NextAbuse ==
    \/ Classify
    \/ SubmitProbe

SpecAbuse == InitAbuse /\ [][NextAbuse]_vars

----------------------------------------------------------------------------
(* The word-repetition check on its own: a text of up to MaxWords words is
   drawn and classified *)

Vocabulary == {<<"a","b">>, <<"A","b">>, <<"b">>}
Separators == {<<" ">>, <<"\n"," ">>}

\* sep.join(words)
RECURSIVE join(_, _)
join(words, sep) ==
    IF Len(words) = 0 THEN << >>
    ELSE IF Len(words) = 1 THEN words[1]
    ELSE words[1] \o sep \o join(Tail(words), sep)

WordTexts ==
    {join(words, sep) :
        words \in UNION {[1..n -> Vocabulary] : n \in 0..MaxWords},
        sep \in Separators}

InitWords ==
    /\ backend \in Backends
    /\ openai_client \in BOOLEAN
    /\ news_runs = NoRuns
    /\ messages = {}
    /\ reports = {}
    /\ now = 0
    /\ uuids = 0
    /\ \E text \in WordTexts :
          last = Response("probe", [text |-> text, image_url |-> << >>], 0,
                          "none", << >>, {})

\* is_content_abusive(text) is called; its answer and the return statement it
\* left by are kept
ClassifyWords ==
    /\ last.op = "probe"
    /\ last' = Response("is_content_abusive", last.arg, 0,
                        IF is_content_abusive(last.arg.text) THEN "abusive"
                        ELSE "clean",
                        <<abusive_return(last.arg.text)>>, {})
    /\ UNCHANGED <<news_runs, backend, openai_client, messages, reports, now,
                   uuids>>

NextWords ==
    \/ ClassifyWords

SpecWords == InitWords /\ [][NextWords]_vars

----------------------------------------------------------------------------
(* What the properties below read *)

\* the step serves a request of handler op: the clock stands still and the
\* response is that handler's
Served(op) == now' = now /\ last'.op = op

\* strip and is_content_abusive of the texts the model submits, worked out
\* once; other texts are worked out when asked for
stripped_texts == [data \in SubmitRequests |-> strip(data.text)]
abusive_texts ==
    [text \in {stripped_texts[data] : data \in SubmitRequests} |->
        is_content_abusive(text)]

Stripped(data) ==
    IF data \in SubmitRequests THEN stripped_texts[data] ELSE strip(data.text)
Abusive(text) ==
    IF text \in DOMAIN abusive_texts THEN abusive_texts[text]
    ELSE is_content_abusive(text)

\* the age of a row at instant t, and whether it is past the time to live
Age(r, t) == t - r.timestamp
Expired(r, t) == Age(r, t) > TTLTicks

----------------------------------------------------------------------------
(* C1 *)

\* C1 as stated: every POST /messages whose submitted text is longer than
\* MAX_LENGTH is rejected.
C1_OverLengthRejected_AsStated ==
    last.op = "post_message" /\ Len(last.arg.text) > MAX_LENGTH
        => last.status = 400

\* C1, amended: POST /messages rejects the request whenever the submitted
\* text, once its leading and trailing white space is stripped, is empty, is
\* longer than MAX_LENGTH or is flagged by the abuse filter; a rejected
\* request leaves the stored posts and reports exactly as they were.
C1_InvalidRejected ==
    [][Served("post_message") =>
        LET text == Stripped(last'.arg)
        IN  /\ (Len(text) = 0 \/ Len(text) > MAX_LENGTH \/ Abusive(text))
                    => last'.status = 400
            /\ last'.status = 400 => messages' = messages /\ reports' = reports
      ]_vars

\* an over-length text was submitted to a wall that holds posts, and rejected
C1_Witness ==
    /\ last.op = "post_message"
    /\ Len(Stripped(last.arg)) > MAX_LENGTH
    /\ last.status = 400
    /\ messages # {}

----------------------------------------------------------------------------
(* C2 *)

\* C2: every stored post has a text of at most MAX_LENGTH characters.
C2_TextWithinMaxLength ==
    \A m \in messages : Len(m.text) <= MAX_LENGTH

----------------------------------------------------------------------------
(* C3 *)

----------------------------------------------------------------------------
(* C4 *)

\* C4: GET /messages leaves exactly the posts that are not past the time to
\* live in the store, and returns exactly those.
C4_SweepThenList ==
    [][Served("get_messages") =>
        /\ messages' = {m \in messages : ~Expired(m, now)}
        /\ {last'.body[i].id : i \in 1..Len(last'.body)} = ids_of(messages')
        /\ Len(last'.body) = Cardinality(messages')
      ]_vars

----------------------------------------------------------------------------
(* C5 *)

\* the submitted text is one POST /messages accepts, by the text as submitted
\* and by the text as stripped
AcceptableAsSubmitted(data) ==
    /\ Len(data.text) > 0
    /\ Len(data.text) <= MAX_LENGTH
    /\ ~Abusive(data.text)
Acceptable(data) ==
    LET text == Stripped(data)
    IN  Len(text) > 0 /\ Len(text) <= MAX_LENGTH /\ ~Abusive(text)

\* C5 as stated: an accepted submit stores exactly one new post that carries
\* the submitted text, the image reference, the current timestamp and a fresh
\* identifier, leaves the other posts alone, and returns that post.
C5_StoresAndReturnsPost_AsStated ==
    [][Served("post_message") /\ AcceptableAsSubmitted(last'.arg) =>
        \E row \in messages' :
            /\ messages' = messages \cup {row}
            /\ row.id \notin ids_of(messages)
            /\ row.text = last'.arg.text
            /\ row.timestamp = now
            /\ last'.body = <<row>>
      ]_vars

\* C5, amended: a submit whose stripped text is non-empty, at most MAX_LENGTH
\* long and not flagged stores exactly one new post.  The post carries the
\* stripped text, the stripped image reference (None when that is empty), a
\* fresh identifier and the current time as the REAL column keeps it: exactly
\* in SQLite, rounded to the nearest single-precision value in PostgreSQL.
\* The other posts and the reports stay as they were, and the response is
\* {"status": "ok"}: the post itself is not returned.
C5_StoresOnePost ==
    [][Served("post_message") /\ Acceptable(last'.arg) =>
        \E row \in messages' :
            /\ messages' = messages \cup {row}
            /\ row.id \notin ids_of(messages)
            /\ row.text = Stripped(last'.arg)
            /\ row.image_url = strip(last'.arg.image_url)
            /\ row.is_ai = FALSE
            /\ IF backend = "sqlite" THEN row.timestamp = now
               ELSE /\ row.timestamp % Float4Ticks = 0
                    /\ 2 * (row.timestamp - now) <= Float4Ticks
                    /\ 2 * (now - row.timestamp) <= Float4Ticks
            /\ reports' = reports
            /\ last'.status = 200 /\ last'.reply = "ok" /\ last'.body = << >>
      ]_vars

\* a text with white space around it and an image reference was accepted by
\* the PostgreSQL wall at an instant a single cannot hold, next to an older post
C5_Witness ==
    /\ last.op = "post_message"
    /\ last.status = 200
    /\ last.arg.text # Stripped(last.arg)
    /\ \E m \in messages :
          /\ m.text = Stripped(last.arg)
          /\ m.image_url # None
          /\ m.timestamp # now
          /\ \E other \in messages : other.id < m.id

----------------------------------------------------------------------------
(* C6 *)

\* C6: the list GET /messages returns is in non-increasing timestamp order.
C6_NewestFirst ==
    last.op = "get_messages" =>
        \A i, j \in 1..Len(last.body) :
            i < j => last.body[i].timestamp >= last.body[j].timestamp

\* a list of two posts of different timestamps was returned
C6_Witness ==
    /\ last.op = "get_messages"
    /\ \E i, j \in 1..Len(last.body) :
          i < j /\ last.body[i].timestamp > last.body[j].timestamp

----------------------------------------------------------------------------
(* C7 *)

\* C7: DELETE /messages/<id> removes the post of that identifier, whatever
\* its age, and nothing else; when no post has the identifier the request
\* succeeds and posts and reports are what they were.
C7_DeleteById ==
    [][Served("delete_message") =>
        LET id == last'.arg.message_id
        IN  /\ last'.status = 200
            /\ messages' = {m \in messages : m.id # id}
            /\ reports' = reports
            /\ id \notin ids_of(messages) => messages' = messages
      ]_vars

\* a stored post was deleted while another post stayed
C7_Witness ==
    /\ last.op = "delete_message"
    /\ last.removed = {last.arg.message_id}
    /\ messages # {}

----------------------------------------------------------------------------
(* C8 *)

\* C8: POST /messages/<id>/report stores exactly one new report that names
\* id, whether or not a post has that identifier, and leaves the posts
\* alone; no request ever removes or alters a stored report.
C8_ReportsKept ==
    [][/\ reports \subseteq reports'
       /\ Served("report_message") =>
            /\ messages' = messages
            /\ \E r \in reports' :
                  /\ r \notin reports
                  /\ reports' = reports \cup {r}
                  /\ r.message_id = last'.arg.message_id
      ]_vars

\* a report is stored that names a post the expiry sweep has just removed
C8_Witness ==
    /\ last.op = "get_messages"
    /\ \E r \in reports :
          r.message_id \in last.removed /\ r.message_id \notin ids_of(messages)

----------------------------------------------------------------------------
(* C9 *)

\* C9: every item of the list carries expires_in = max(0, floor(TTL - age)),
\* in seconds, and the value lies in 0..TTL when the item's timestamp is not
\* later than the instant of the request.
C9_ExpiresIn ==
    last.op = "get_messages" =>
        \A i \in 1..Len(last.body) :
            LET item == last.body[i]
                left == TTLTicks - (last.arg.at - item.timestamp)
                secs == left \div TicksPerSecond
            IN  /\ item.expires_in = (IF secs >= 0 THEN secs ELSE 0)
                /\ item.timestamp <= last.arg.at =>
                      item.expires_in \in 0..MESSAGE_TTL

\* a list holds a post whose remaining life is not a whole number of seconds
C9_Witness ==
    /\ last.op = "get_messages"
    /\ \E i \in 1..Len(last.body) :
          /\ last.body[i].timestamp <= last.arg.at
          /\ (TTLTicks - (last.arg.at - last.body[i].timestamp))
                % TicksPerSecond # 0
          /\ last.body[i].expires_in < MESSAGE_TTL

----------------------------------------------------------------------------
(* C10 *)

\* s holds five or more equal characters in a row
HasRun(s) ==
    \E i \in 1..Len(s) : \E j \in i..Len(s) :
        j - i + 1 >= 5 /\ \A k \in i..j : s[k] = s[i]

\* C10 as stated: is_content_abusive answers True for every string that
\* holds five or more equal characters in a row, and POST /messages rejects
\* every such text.
C10_RunRejected_AsStated ==
    /\ last.op = "is_content_abusive" /\ HasRun(last.arg.text)
          => last.reply = "abusive"
    /\ last.op = "post_message" /\ HasRun(last.arg.text)
          => last.status = 400

\* C10, amended: is_content_abusive answers True for every string that holds
\* five or more equal characters in a row, whatever else it holds; POST
\* /messages rejects a text, and stores nothing, when the text still holds
\* such a run once its leading and trailing white space is stripped.
C10_RunClassifiedAbusive ==
    /\ last.op = "is_content_abusive" /\ HasRun(last.arg.text)
          => last.reply = "abusive"
    /\ last.op = "post_message" /\ HasRun(strip(last.arg.text))
          => last.status = 400 /\ messages = {}

\* a text that ends in a run of five, holds another character and trips no
\* other heuristic was submitted and rejected as inappropriate
C10_Witness ==
    /\ last.op = "post_message"
    /\ last.status = 400
    /\ last.reply = "inappropriate content"
    /\ LET text == strip(last.arg.text)
       IN  /\ HasRun(text)
           /\ Len(text) = 6
           /\ text[1] # text[2]
           /\ ~excessive_caps(text)

----------------------------------------------------------------------------
(* C11 *)

\* the white-space separated words of s, in order
RECURSIVE Words(_)
Words(s) ==
    IF Len(s) = 0 THEN << >>
    ELSE IF isspace(s[1]) THEN Words(Tail(s))
    ELSE LET n == CHOOSE k \in 1..Len(s) :
                      /\ \A j \in 1..k : ~isspace(s[j])
                      /\ k = Len(s) \/ isspace(s[k + 1])
         IN  <<SubSeq(s, 1, n)>> \o Words(SubSeq(s, n + 1, Len(s)))

\* one word makes up more than half of the words of w, upper and lower case
\* taken as equal
MajorityWord(w) ==
    \E i \in 1..Len(w) :
        2 * Cardinality({j \in 1..Len(w) : lower(w[j]) = lower(w[i])}) > Len(w)

\* C11: is_content_abusive answers True for every string of six or more
\* white-space separated words in which one word, compared without regard to
\* case, occurs more than half as often as there are words; for a string of
\* five or fewer words it never returns True from the word-repetition check.
C11_MajorityWordAbusive ==
    last.op = "is_content_abusive" /\ Len(last.body) = 1 =>
        LET w == Words(last.arg.text)
        IN  /\ Len(w) >= 6 /\ MajorityWord(w) => last.reply = "abusive"
            /\ Len(w) <= 5 => last.body[1] # "words"

\* a text of six words, four of them one word written in both cases, was
\* classified, and True was returned from the word-repetition check
C11_Witness ==
    /\ last.op = "is_content_abusive"
    /\ last.body = <<"words">>
    /\ last.reply = "abusive"
    /\ LET w == Words(last.arg.text)
       IN  /\ Len(w) = 6
           /\ \E i, j \in 1..Len(w) : w[i] # w[j] /\ lower(w[i]) = lower(w[j])
           /\ \A i \in 1..Len(w) :
                 Cardinality({j \in 1..Len(w) : w[j] = w[i]}) <= 3

----------------------------------------------------------------------------
(* C12 *)

\* text holds url as a run of consecutive characters
Contains(text, url) ==
    \E i \in 1..(Len(text) - Len(url) + 1) :
        SubSeq(text, i, i + Len(url) - 1) = url

\* C12: whatever runs of post_news_to_wall there have been, one after the
\* other or side by side, no two stored posts hold the url of the same
\* article.
C12_NoDuplicateArticle ==
    \A url \in Urls : \A r1, r2 \in messages :
        Contains(r1.text, url) /\ Contains(r2.text, url) => r1 = r2

====
